---- MODULE Spec2Model ----
(***************************************************************************)
(* Zone-based floor plan layout engine (generateFloorPlan, buildWalls and  *)
(* the edit utilities resizeRoom, moveRoom, addRoom, removeRoom,           *)
(* recalculateWalls).                                                      *)
(*                                                                         *)
(* Units.  Lengths are integers counting decimetres (0.1 m): 0.2 m is 2,   *)
(* the 0.5 m grid cell is 5.  Areas count square decimetres (0.01 m^2).    *)
(* Every length the engine stores is a multiple of 0.1 m for hints that    *)
(* are multiples of 0.1 m; the only fractions arise inside distribute,     *)
(* which is computed on exact rationals (numerator over 2 * total).        *)
(* An optional value (width?: number) is a sequence of length 0 or 1.      *)
(***************************************************************************)
EXTENDS Integers, Sequences, FiniteSets, TLC

\* ------------------------------------------------------------------
\* Bounds of the model
\* ------------------------------------------------------------------
MaxRooms == 2
MaxEdits == 2

\* ------------------------------------------------------------------
\* Program constants
\* ------------------------------------------------------------------
EXT_WALL == 2
INT_WALL == 1
GRID == 5
HALLWAY_H == 12
MIN_HOUSE_W == 80

RoomTypes ==
  {"bedroom", "master_bedroom", "bathroom", "ensuite", "kitchen", "living",
   "dining", "garage", "laundry", "hallway", "corridor", "study", "storage"}

ROOM_MIN_SIZES ==
  [t \in RoomTypes |->
     CASE t = "bedroom"        -> [width |-> 30, height |-> 30]
       [] t = "master_bedroom" -> [width |-> 40, height |-> 35]
       [] t = "bathroom"       -> [width |-> 20, height |-> 24]
       [] t = "ensuite"        -> [width |-> 18, height |-> 22]
       [] t = "kitchen"        -> [width |-> 35, height |-> 35]
       [] t = "living"         -> [width |-> 45, height |-> 40]
       [] t = "dining"         -> [width |-> 30, height |-> 30]
       [] t = "garage"         -> [width |-> 30, height |-> 55]
       [] t = "laundry"        -> [width |-> 20, height |-> 20]
       [] t = "hallway"        -> [width |-> 12, height |-> 12]
       [] t = "corridor"       -> [width |-> 12, height |-> 12]
       [] t = "study"          -> [width |-> 25, height |-> 25]
       [] t = "storage"        -> [width |-> 12, height |-> 15]]

\* ------------------------------------------------------------------
\* Arithmetic helpers
\* ------------------------------------------------------------------
Max(a, b) == IF a >= b THEN a ELSE b
Min(a, b) == IF a <= b THEN a ELSE b
Abs(a) == IF a < 0 THEN -a ELSE a

\* Math.round(q) for the rational q = n / d (d > 0): floor(q + 1/2).
RoundQ(n, d) == (2 * n + d) \div (2 * d)

\* snap(v) for the rational v = n / d decimetres.
SnapQ(n, d) == RoundQ(n, GRID * d) * GRID

\* snap(v) = Math.round(v / GRID) * GRID
snap(v) == SnapQ(v, 1)

\* value of an optional number, or the default (the ?? operator)
OrElse(opt, dflt) == IF Len(opt) = 0 THEN dflt ELSE opt[1]

\* truthiness of an optional number (absent and 0 are falsy)
Truthy(opt) == Len(opt) = 1 /\ opt[1] # 0

RECURSIVE SumSeq(_)
SumSeq(s) == IF Len(s) = 0 THEN 0 ELSE Head(s) + SumSeq(Tail(s))

RECURSIVE MaxSeq(_)
MaxSeq(s) == IF Len(s) = 1 THEN s[1] ELSE Max(Head(s), MaxSeq(Tail(s)))

RECURSIVE Concat(_)
Concat(ss) == IF Len(ss) = 0 THEN <<>> ELSE Head(ss) \o Concat(Tail(ss))

\* ------------------------------------------------------------------
\* Zone assignment
\* ------------------------------------------------------------------
zone(type) ==
  CASE type = "garage" -> 0
    [] type \in {"living", "kitchen", "dining"} -> 1
    [] type \in {"hallway", "corridor"} -> 2
    [] type \in {"master_bedroom", "ensuite", "bathroom", "laundry"} -> 3
    [] OTHER -> 4

\* ------------------------------------------------------------------
\* Size resolution
\* ------------------------------------------------------------------
MinSizeOr(type, dflt) ==
  IF type \in DOMAIN ROOM_MIN_SIZES THEN ROOM_MIN_SIZES[type] ELSE dflt

\* size resolution that forgets to snap the height
ResolveHNoSnap(rs, min) == Max(OrElse(rs.height, min.height), min.height)

ResolveW(rs, min) == snap(Max(OrElse(rs.width, min.width), min.width))
ResolveH(rs, min) == snap(Max(OrElse(rs.height, min.height), min.height))

Resolve(rs) ==
  LET min == MinSizeOr(rs.type, [width |-> 30, height |-> 30])
  IN [type |-> rs.type, label |-> rs.label,
      w |-> ResolveW(rs, min), h |-> ResolveH(rs, min)]

\* ------------------------------------------------------------------
\* Helpers
\* ------------------------------------------------------------------
naturalW(rooms) ==
  IF Len(rooms) = 0 THEN 0
  ELSE SumSeq([i \in 1..Len(rooms) |-> rooms[i].w]) + (Len(rooms) - 1) * INT_WALL

\* twice the per-type aspect cap (width <= aspect * height)
MaxAspect2(type) ==
  CASE type = "living" -> 7
    [] type = "dining" -> 6
    [] type = "kitchen" -> 5
    [] type \in {"master_bedroom", "bedroom", "study", "bathroom", "ensuite"} -> 4
    [] type = "laundry" -> 5
    [] type = "garage" -> 5
    [] type = "storage" -> 8
    [] type = "hallway" -> 100
    [] OTHER -> 5

\* The rooms.map of distribute, from room i on.  Rationals are scaled by
\* D = 2 * total: remS is remaining * D.  Returns the grown rooms and the
\* scaled remainder left after the last room.
RECURSIVE Grow(_, _, _, _, _)
Grow(rooms, i, extra, total, remS) ==
  IF i > Len(rooms) THEN [grown |-> <<>>, rem |-> remS]
  ELSE LET r == rooms[i]
           D == 2 * total
           shareS == 2 * extra * r.w
           capS == (r.h * MaxAspect2(r.type) - 2 * r.w) * total
           actualS == Min(Min(shareS, capS), remS)
           rest == Grow(rooms, i + 1, extra, total, remS - actualS)
       IN [grown |-> <<[r EXCEPT !.w = SnapQ(r.w * D + actualS, D)]>> \o rest.grown,
           rem |-> rest.rem]

distribute(rooms, targetW) ==
  IF Len(rooms) = 0 THEN rooms
  ELSE LET extra == targetW - naturalW(rooms)
       IN IF 2 * extra <= 1 THEN rooms
          ELSE LET total == SumSeq([i \in 1..Len(rooms) |-> rooms[i].w])
                   D == 2 * total
                   g == Grow(rooms, 1, extra, total, extra * D)
                   n == Len(rooms)
               IN IF 2 * g.rem > D
                  THEN [g.grown EXCEPT ![n].w = SnapQ(g.grown[n].w * D + g.rem, D)]
                  ELSE g.grown

\* ------------------------------------------------------------------
\* Wall generation
\* ------------------------------------------------------------------
Seg(x1, y1, x2, y2) == [x1 |-> x1, y1 |-> y1, x2 |-> x2, y2 |-> y2]

WallOf(c, thickness, type) ==
  [x1 |-> c.x1, y1 |-> c.y1, x2 |-> c.x2, y2 |-> c.y2,
   thickness |-> thickness, type |-> type]

\* an exterior perimeter that is the rectangle whatever the wing
ExteriorSegsRect(planW, planH, garageWingWidth, garageWingDepth) ==
  << Seg(0, 0, planW, 0),
     Seg(planW, 0, planW, planH),
     Seg(planW, planH, 0, planH),
     Seg(0, planH, 0, 0) >>

\* Exterior perimeter: L-shape when both wing dimensions are truthy.
ExteriorSegs(planW, planH, garageWingWidth, garageWingDepth) ==
  IF Truthy(garageWingWidth) /\ Truthy(garageWingDepth)
  THEN LET gW == garageWingWidth[1]
           gH == garageWingDepth[1]
       IN << Seg(0, 0, gW, 0),
             Seg(gW, 0, gW, gH),
             Seg(gW, gH, planW, gH),
             Seg(planW, gH, planW, planH),
             Seg(planW, planH, 0, planH),
             Seg(0, planH, 0, 0) >>
  ELSE << Seg(0, 0, planW, 0),
          Seg(planW, 0, planW, planH),
          Seg(planW, planH, 0, planH),
          Seg(0, planH, 0, 0) >>

\* the four edges of a room, in the order the code lists them
RoomEdges(r) ==
  << Seg(r.x, r.y, r.x + r.width, r.y),
     Seg(r.x + r.width, r.y, r.x + r.width, r.y + r.height),
     Seg(r.x, r.y + r.height, r.x + r.width, r.y + r.height),
     Seg(r.x, r.y, r.x, r.y + r.height) >>

\* |v| < 0.05 m
Near0(v) == 2 * Abs(v) < 1

\* an exterior test satisfied by one endpoint alone
onExtOneEnd(e, planW, planH) ==
  \/ (Near0(e.x1) \/ Near0(e.x2))
  \/ (Near0(e.y1) \/ Near0(e.y2))
  \/ (Near0(e.x1 - planW) \/ Near0(e.x2 - planW))
  \/ (Near0(e.y1 - planH) \/ Near0(e.y2 - planH))

onExt(e, planW, planH) ==
  \/ (Near0(e.x1) /\ Near0(e.x2))
  \/ (Near0(e.y1) /\ Near0(e.y2))
  \/ (Near0(e.x1 - planW) /\ Near0(e.x2 - planW))
  \/ (Near0(e.y1 - planH) /\ Near0(e.y2 - planH))

\* the quantized keys k and kr (Math.round(v * 10) of a length in metres)
EdgeKey(e) == << RoundQ(e.x1, 1), RoundQ(e.y1, 1), RoundQ(e.x2, 1), RoundQ(e.y2, 1) >>
EdgeKeyRev(e) == << RoundQ(e.x2, 1), RoundQ(e.y2, 1), RoundQ(e.x1, 1), RoundQ(e.y1, 1) >>

\* a dedup test that never finds an edge
SeenEdgeNever(seen, e) == FALSE

\* an edge already emitted (the seen.has test)
SeenEdge(seen, e) == EdgeKey(e) \in seen \/ EdgeKeyRev(e) \in seen

\* The interior loop over all edges of all rooms, from edge i on.
RECURSIVE InteriorFrom(_, _, _, _, _)
InteriorFrom(edges, i, seen, planW, planH) ==
  IF i > Len(edges) THEN <<>>
  ELSE LET e == edges[i]
       IN IF onExt(e, planW, planH) \/ SeenEdge(seen, e)
          THEN InteriorFrom(edges, i + 1, seen, planW, planH)
          ELSE <<WallOf(e, INT_WALL, "interior")>>
               \o InteriorFrom(edges, i + 1, seen \cup {EdgeKey(e)}, planW, planH)

buildWalls(rooms, planW, planH, garageWingWidth, garageWingDepth) ==
  LET ext == ExteriorSegs(planW, planH, garageWingWidth, garageWingDepth)
      edges == Concat([i \in 1..Len(rooms) |-> RoomEdges(rooms[i])])
  IN [i \in 1..Len(ext) |-> WallOf(ext[i], EXT_WALL, "exterior")]
     \o InteriorFrom(edges, 1, {}, planW, planH)

\* ------------------------------------------------------------------
\* Area
\* ------------------------------------------------------------------
\* v.toFixed(1) of an area given in 0.01 m^2, kept in 0.01 m^2
ToFixed1(a) == RoundQ(a, 10) * 10

\* area(r): +(width * height).toFixed(2)
area(r) == r.width * r.height

\* an area filter that forgets the filler storage rooms
GenAreaExcludedNoStorage == {"garage", "hallway"}

\* types left out of totalArea by generateFloorPlan
GenAreaExcluded == {"garage", "hallway", "storage"}

\* types left out of totalArea by recalculateWalls
EditAreaExcluded == {"garage", "hallway"}

SumArea(rooms, excluded) ==
  SumSeq([i \in 1..Len(rooms) |->
            IF rooms[i].type \in excluded THEN 0 ELSE area(rooms[i])])

\* ------------------------------------------------------------------
\* Core layout
\* ------------------------------------------------------------------
\* spec.rooms without hallway/corridor, sizes resolved
Sized(spec) ==
  LET kept == SelectSeq(spec.rooms, LAMBDA rs : rs.type \notin {"hallway", "corridor"})
  IN [i \in 1..Len(kept) |-> Resolve(kept[i])]

\* bucket into the five zones
Bucket(sized) ==
  [zi \in 0..4 |-> SelectSeq(sized, LAMBDA r : zone(r.type) = zi)]

\* a hallway test that always asks for the hallway
needsHallwayAlways(zones) == TRUE

\* a hallway test that looks at the rear zone only
needsHallwayRear(zones) == Len(zones[4]) > 0

needsHallway(zones) == Len(zones[3]) > 0 \/ Len(zones[4]) > 0

\* zone heights: tallest room of each zone
ZoneHeights(zones) ==
  [zi \in 0..4 |->
     IF zi = 2 THEN (IF needsHallway(zones) THEN HALLWAY_H ELSE 0)
     ELSE IF Len(zones[zi]) = 0 THEN 0
     ELSE MaxSeq([i \in 1..Len(zones[zi]) |-> zones[zi][i].h])]

\* a house width without the 8.0 m floor
HouseWNoFloor(spec, zones) ==
  LET liveW == naturalW(zones[1])
      otherMaxW == Max(naturalW(zones[0]), Max(naturalW(zones[3]), naturalW(zones[4])))
      houseW == snap(IF liveW > 0 THEN liveW ELSE otherMaxW)
  IN IF Truthy(spec.targetWidth)
     THEN snap(Max(spec.targetWidth[1] - EXT_WALL * 2, houseW))
     ELSE houseW

\* house interior width
HouseW(spec, zones) ==
  LET liveW == naturalW(zones[1])
      otherMaxW == Max(naturalW(zones[0]), Max(naturalW(zones[3]), naturalW(zones[4])))
      houseW == snap(Max(IF liveW > 0 THEN liveW ELSE otherMaxW, MIN_HOUSE_W))
  IN IF Truthy(spec.targetWidth)
     THEN snap(Max(spec.targetWidth[1] - EXT_WALL * 2, houseW))
     ELSE houseW

Filler(label, w, h) == [type |-> "storage", label |-> label, w |-> w, h |-> h]

\* auto-fill of zone 0 with Entry and/or Alfresco
FillGarage(z0, h0, houseW) ==
  IF Len(z0) > 0 /\ h0 > 0 /\ houseW - naturalW(z0) > 14
  THEN LET extra == houseW - naturalW(z0)
           withEntry == Append(z0, Filler("Entry / Porch", snap(Min(extra - INT_WALL, 30)), h0))
           stillExtra == houseW - naturalW(withEntry)
       IN IF stillExtra > 14
          THEN Append(withEntry, Filler("Alfresco", snap(stillExtra - INT_WALL), h0))
          ELSE withEntry
  ELSE z0

\* auto-fill of zone 4 with Linen
FillRear(z4, h4, houseW) ==
  IF Len(z4) > 0 /\ h4 > 0 /\ houseW - naturalW(z4) > 20
  THEN Append(z4, Filler("Linen", snap(Min(houseW - naturalW(z4) - INT_WALL, 20)), h4))
  ELSE z4

\* zone zi after auto-fill, as it is handed to distribute
Filled(zones, zH, houseW, zi) ==
  CASE zi = 0 -> FillGarage(zones[0], zH[0], houseW)
    [] zi = 4 -> FillRear(zones[4], zH[4], houseW)
    [] OTHER -> zones[zi]

\* zones after auto-fill and the per-zone distribute over houseW
Distributed(zones, zH, houseW) ==
  [zi \in 0..4 |->
     LET filled == Filled(zones, zH, houseW, zi)
     IN IF zi = 2 \/ Len(filled) = 0 THEN filled ELSE distribute(filled, houseW)]

\* isLShape, from zone 0 as it stands after auto-fill and distribute
IsLShape(z0, h0, houseW) ==
  LET zone0NatW == naturalW(z0)
      hasGarage == Len(z0) > 0 /\ h0 > 0
  IN hasGarage /\ 100 * zone0NatW < houseW * 72

\* a zone y that leaves no interior wall between the zones
ZoneYNoGap(zH, zi) ==
  EXT_WALL + SumSeq([j \in 1..zi |-> zH[j - 1]])

\* y of zone zi: EXT_WALL plus height and gap of every placed zone before it
ZoneY(zH, zi) ==
  EXT_WALL + SumSeq([j \in 1..zi |-> IF zH[j - 1] = 0 THEN 0 ELSE zH[j - 1] + INT_WALL])

\* a curX that advances by the wall only, not by the room's width
RoomXNoWidth(z, k) == EXT_WALL + (k - 1) * INT_WALL

\* curX of the k-th room of a zone: every room before it advances curX by
\* its width and one interior wall
RoomX(z, k) == EXT_WALL + SumSeq([j \in 1..(k - 1) |-> z[j].w + INT_WALL])

\* the rooms placed for zone zi (ids are assigned afterwards, in push order)
PlaceZone(zones, zH, zi, houseW) ==
  IF zH[zi] = 0 THEN <<>>
  ELSE IF zi = 2
  THEN << [type |-> "hallway", label |-> "Hallway",
           x |-> EXT_WALL, y |-> ZoneY(zH, zi), width |-> houseW, height |-> zH[zi]] >>
  ELSE [k \in 1..Len(zones[zi]) |->
          [type |-> zones[zi][k].type, label |-> zones[zi][k].label,
           x |-> RoomX(zones[zi], k),
           y |-> ZoneY(zH, zi), width |-> zones[zi][k].w, height |-> zH[zi]]]

\* attach ids (uuidv4: fresh, distinct) starting after id `base`
WithIds(placed, base) ==
  [k \in 1..Len(placed) |->
     [id |-> base + k, type |-> placed[k].type, label |-> placed[k].label,
      x |-> placed[k].x, y |-> placed[k].y,
      width |-> placed[k].width, height |-> placed[k].height]]

generateFloorPlan(spec) ==
  LET zones0 == Bucket(Sized(spec))
      zH == ZoneHeights(zones0)
      houseW == HouseW(spec, zones0)
      zonesD == Distributed(zones0, zH, houseW)
      isLShape == IsLShape(zonesD[0], zH[0], houseW)
      zone0NatW == naturalW(zonesD[0])
      zones == IF isLShape THEN [zonesD EXCEPT ![0] = distribute(zonesD[0], zone0NatW)]
               ELSE zonesD
      rooms == WithIds(Concat([j \in 1..5 |-> PlaceZone(zones, zH, j - 1, houseW)]), 0)
      curY == ZoneY(zH, 5)
      planW == snap(EXT_WALL + houseW + EXT_WALL)
      planH == snap(curY - INT_WALL + EXT_WALL)
      garageWingWidth == IF isLShape THEN <<snap(EXT_WALL + zone0NatW + EXT_WALL)>> ELSE <<>>
      garageWingDepth == IF isLShape THEN <<snap(EXT_WALL + zH[0] + INT_WALL)>> ELSE <<>>
  IN [totalArea |-> ToFixed1(SumArea(rooms, GenAreaExcluded)),
      width |-> planW, depth |-> planH,
      garageWingWidth |-> garageWingWidth, garageWingDepth |-> garageWingDepth,
      rooms |-> rooms,
      walls |-> buildWalls(rooms, planW, planH, garageWingWidth, garageWingDepth)]

\* ------------------------------------------------------------------
\* Edit utilities
\* ------------------------------------------------------------------
\* {...plan, rooms, walls: buildWalls(rooms, plan.width, plan.depth)}
WithRooms(plan, rooms) ==
  [plan EXCEPT !.rooms = rooms,
               !.walls = buildWalls(rooms, plan.width, plan.depth, <<>>, <<>>)]

\* a resize that takes the requested size without the registered minimum
resizeRoomNoMin(plan, roomId, newW, newH) ==
  LET rooms == [i \in 1..Len(plan.rooms) |->
                  LET r == plan.rooms[i]
                  IN IF r.id # roomId THEN r
                     ELSE [r EXCEPT !.width = snap(newW), !.height = snap(newH)]]
  IN WithRooms(plan, rooms)

resizeRoom(plan, roomId, newW, newH) ==
  LET rooms == [i \in 1..Len(plan.rooms) |->
                  LET r == plan.rooms[i]
                      min == MinSizeOr(r.type, [width |-> 10, height |-> 10])
                  IN IF r.id # roomId THEN r
                     ELSE [r EXCEPT !.width = snap(Max(newW, min.width)),
                                    !.height = snap(Max(newH, min.height))]]
  IN WithRooms(plan, rooms)

\* a move that falls back on the first room when no room has the id
moveRoomOrFirst(plan, roomId, newX, newY) ==
  LET hit == \E i \in 1..Len(plan.rooms) : plan.rooms[i].id = roomId
      rooms == [i \in 1..Len(plan.rooms) |->
                  LET r == plan.rooms[i]
                  IN IF (hit /\ r.id # roomId) \/ (~hit /\ i # 1) THEN r
                     ELSE [r EXCEPT !.x = snap(Max(EXT_WALL, newX)),
                                    !.y = snap(Max(EXT_WALL, newY))]]
  IN WithRooms(plan, rooms)

moveRoom(plan, roomId, newX, newY) ==
  LET rooms == [i \in 1..Len(plan.rooms) |->
                  LET r == plan.rooms[i]
                  IN IF r.id # roomId THEN r
                     ELSE [r EXCEPT !.x = snap(Max(EXT_WALL, newX)),
                                    !.y = snap(Max(EXT_WALL, newY))]]
  IN WithRooms(plan, rooms)

\* a lowest edge that takes each room's y and forgets its height
LowestEdgeTop(rooms) ==
  IF Len(rooms) = 0 THEN 0
  ELSE Max(0, MaxSeq([i \in 1..Len(rooms) |-> rooms[i].y]))

\* plan.rooms.reduce((m, r) => Math.max(m, r.y + r.height), 0)
LowestEdge(rooms) ==
  IF Len(rooms) = 0 THEN 0
  ELSE Max(0, MaxSeq([i \in 1..Len(rooms) |-> rooms[i].y + rooms[i].height]))

addRoom(plan, spec, newId) ==
  LET sz == Resolve(spec)
      maxY == LowestEdge(plan.rooms) + INT_WALL
      newRoom == [id |-> newId, type |-> spec.type, label |-> spec.label,
                  x |-> EXT_WALL, y |-> maxY, width |-> sz.w, height |-> sz.h]
      rooms == Append(plan.rooms, newRoom)
      planW == snap(Max(plan.width, EXT_WALL + sz.w + EXT_WALL))
      planH == snap(maxY + sz.h + EXT_WALL)
  IN [plan EXCEPT !.rooms = rooms,
                  !.walls = buildWalls(rooms, planW, planH, <<>>, <<>>),
                  !.width = planW, !.depth = planH]

\* a removal that drops the room standing at position roomId of the list
removeRoomAt(plan, roomId) ==
  WithRooms(plan, [i \in 1..(IF roomId \in 1..Len(plan.rooms)
                              THEN Len(plan.rooms) - 1 ELSE Len(plan.rooms)) |->
                     IF roomId \in 1..Len(plan.rooms) /\ i >= roomId
                     THEN plan.rooms[i + 1] ELSE plan.rooms[i]])

removeRoom(plan, roomId) ==
  WithRooms(plan, SelectSeq(plan.rooms, LAMBDA r : r.id # roomId))

\* a recalculation that adds the rebuilt walls to the walls already there
recalculateWallsAppend(plan) ==
  [plan EXCEPT !.walls = @ \o buildWalls(plan.rooms, plan.width, plan.depth, <<>>, <<>>),
               !.totalArea = ToFixed1(SumArea(plan.rooms, EditAreaExcluded))]

recalculateWalls(plan) ==
  [plan EXCEPT !.walls = buildWalls(plan.rooms, plan.width, plan.depth, <<>>, <<>>),
               !.totalArea = ToFixed1(SumArea(plan.rooms, EditAreaExcluded))]

\* ------------------------------------------------------------------
\* Inputs
\* ------------------------------------------------------------------
\* width/height hints of a room spec: absent, zero and negative, larger
Hints ==
  { [width |-> <<>>, height |-> <<>>],
    [width |-> <<0>>, height |-> <<-10>>],
    [width |-> <<58>>, height |-> <<45>>] }

RoomSpecs ==
  { [type |-> t, label |-> "Room", width |-> h.width, height |-> h.height] :
      t \in RoomTypes, h \in Hints }

\* room specs with no hints
PlainSpecs == { rs \in RoomSpecs : Len(rs.width) = 0 }

TargetWidths == { <<>>, <<104>> }

SeqsUpTo(S, n) == UNION { [1..k -> S] : k \in 0..n }

HouseSpecs == [rooms : SeqsUpTo(RoomSpecs, MaxRooms), targetWidth : TargetWidths]

\* the houses the edit calls start from: no room, one room of any type, and
\* a living room beside a kitchen
EditRoomLists ==
  {<<>>} \cup { <<rs>> : rs \in PlainSpecs }
         \cup { << [type |-> "living", label |-> "Room", width |-> <<>>, height |-> <<>>],
                   [type |-> "kitchen", label |-> "Room", width |-> <<>>, height |-> <<>>] >> }

EditHouseSpecs == [rooms : EditRoomLists, targetWidth : {<<>>}]

\* the houses of the plans with a garage wing: a garage alone, and a
\* garage with a living room or a bedroom
ShapeHouseSpecs ==
  LET plain(t) == [type |-> t, label |-> "Room", width |-> <<>>, height |-> <<>>]
  IN [rooms : { << plain("garage") >>,
                << plain("garage"), plain("living") >>,
                << plain("garage"), plain("bedroom") >> },
      targetWidth : {<<>>}]

\* type strings of a parsed JSON room: the RoomType values, a missing type
\* ("" stands for absent or empty) and one that is no RoomType
RawTypes == RoomTypes \cup {"", "sunroom"}

\* hints of a parsed JSON room: none, and a width beyond the 8.0 m floor
RawHints ==
  { [width |-> <<>>, height |-> <<>>],
    [width |-> <<95>>, height |-> <<>>] }

RawRooms ==
  { [type |-> t, label |-> "Room", width |-> h.width, height |-> h.height] :
      t \in RawTypes, h \in RawHints }

\* the rooms.map of parseRoomSpec: a missing type becomes 'bedroom', any
\* other string is passed on as it is; the label is kept when present
\* (every raw room here has one), numeric hints are kept
parseRoomSpec(parsedRooms) ==
  [i \in 1..Len(parsedRooms) |->
     LET r == parsedRooms[i]
     IN [type |-> IF r.type = "" THEN "bedroom" ELSE r.type,
         label |-> r.label, width |-> r.width, height |-> r.height]]

\* generateFloorPlan({ rooms: spec.rooms }) on the parsed rooms
ParsedHouseSpecs ==
  { [rooms |-> parseRoomSpec(raw), targetWidth |-> <<>>] :
      raw \in SeqsUpTo(RawRooms, MaxRooms) }

\* house specs whose zones are handed to distribute: the parsed room lists,
\* without a target width and with one of 17.0 m
DistHouseSpecs ==
  { [rooms |-> hs.rooms, targetWidth |-> tw] :
      hs \in ParsedHouseSpecs, tw \in { <<>>, <<170>> } }

\* the distribute(zones[zi], houseW) calls generateFloorPlan makes for spec
DistCalls(spec) ==
  LET zones0 == Bucket(Sized(spec))
      zH == ZoneHeights(zones0)
      houseW == HouseW(spec, zones0)
  IN { [f |-> "distribute", rooms |-> Filled(zones0, zH, houseW, zi), w |-> houseW,
        h |-> 0, gw |-> <<>>, gd |-> <<>>, out |-> <<>>, done |-> FALSE] :
         zi \in { z \in {0, 1, 3, 4} : Len(zones0[z]) > 0 } }

\* buildWalls calls on the rooms and footprint generateFloorPlan lays out
\* for spec: without a wing, and for a house with a garage also with the
\* wing of lines 218-219 and with its width alone
WallCalls(spec) ==
  LET q == generateFloorPlan(spec)
      zones0 == Bucket(Sized(spec))
      gw == << snap(EXT_WALL + naturalW(zones0[0]) + EXT_WALL) >>
      gd == << snap(EXT_WALL + ZoneHeights(zones0)[0] + INT_WALL) >>
      wings == IF Len(zones0[0]) = 0 THEN { << <<>>, <<>> >> }
               ELSE { << <<>>, <<>> >>, << gw, gd >>, << gw, <<>> >> }
  IN { [f |-> "buildWalls", rooms |-> q.rooms, w |-> q.width, h |-> q.depth,
        gw |-> wg[1], gd |-> wg[2], out |-> <<>>, done |-> FALSE] : wg \in wings }

\* arguments of the edit calls
ResizeArgs == { <<10, 10>>, <<47, 62>> }
MoveArgs == { <<0, 0>>, <<-5, 33>>, <<48, 2>> }
AddArgs == { rs \in RoomSpecs : rs.type \in {"bedroom", "storage", "garage"}
                               /\ rs.width \in {<<>>, <<0>>} }

\* ------------------------------------------------------------------
\* State
\* ------------------------------------------------------------------
VARIABLES
  input,    \* the HouseSpec handed to generateFloorPlan
  phase,    \* "spec" before generateFloorPlan has run, "plan" after
  plan,     \* the current FloorPlan value
  prev,     \* the plan the last call was given
  call,     \* the last call and its arguments
  ids,      \* number of room ids handed out so far
  edits,    \* number of edit calls made
  heap,     \* the objects allocated so far (SpecHeap), by address
  cur,      \* address of the current FloorPlan object (SpecHeap), 0 if none
  fcall     \* one call of an internal function, its arguments and result

vars == << input, phase, plan, prev, call, ids, edits, heap, cur, fcall >>

NoPlan ==
  [totalArea |-> 0, width |-> 0, depth |-> 0,
   garageWingWidth |-> <<>>, garageWingDepth |-> <<>>,
   rooms |-> <<>>, walls |-> <<>>]

NoCall == [op |-> "none", roomId |-> 0, a |-> 0, b |-> 0, spec |-> <<>>]

\* no internal function is looked at on its own
NoFcall ==
  [f |-> "none", rooms |-> <<>>, w |-> 0, h |-> 0, gw |-> <<>>, gd |-> <<>>,
   out |-> <<>>, done |-> FALSE]

InitWith(specs) ==
  /\ fcall = NoFcall
  /\ input \in specs
  /\ phase = "spec"
  /\ plan = NoPlan
  /\ prev = NoPlan
  /\ call = NoCall
  /\ ids = 0
  /\ edits = 0
  /\ heap = <<>>
  /\ cur = 0

Init == InitWith(EditHouseSpecs)

InitGen == InitWith(HouseSpecs)

Generate ==
  /\ phase = "spec"
  /\ phase' = "plan"
  /\ plan' = generateFloorPlan(input)
  /\ ids' = Len(plan'.rooms)
  /\ call' = [NoCall EXCEPT !.op = "generate"]
  /\ UNCHANGED << input, prev, edits, heap, cur, fcall >>

\* room ids an edit call may name: every id handed out so far, and 0 (never a room)
CallIds == 0..ids

CanEdit == phase = "plan" /\ edits < MaxEdits

Edited(newPlan, c) ==
  /\ plan' = newPlan
  /\ prev' = plan
  /\ call' = c
  /\ edits' = edits + 1
  /\ UNCHANGED << input, phase, heap, cur, fcall >>

ResizeRoom ==
  /\ CanEdit
  /\ \E id \in CallIds, wh \in ResizeArgs :
       Edited(resizeRoom(plan, id, wh[1], wh[2]),
              [NoCall EXCEPT !.op = "resize", !.roomId = id, !.a = wh[1], !.b = wh[2]])
  /\ UNCHANGED ids

MoveRoom ==
  /\ CanEdit
  /\ \E id \in CallIds, xy \in MoveArgs :
       Edited(moveRoom(plan, id, xy[1], xy[2]),
              [NoCall EXCEPT !.op = "move", !.roomId = id, !.a = xy[1], !.b = xy[2]])
  /\ UNCHANGED ids

AddRoom ==
  /\ CanEdit
  /\ \E rs \in AddArgs :
       Edited(addRoom(plan, rs, ids + 1),
              [NoCall EXCEPT !.op = "add", !.roomId = ids + 1, !.spec = <<rs>>])
  /\ ids' = ids + 1

RemoveRoom ==
  /\ CanEdit
  /\ \E id \in CallIds :
       Edited(removeRoom(plan, id), [NoCall EXCEPT !.op = "remove", !.roomId = id])
  /\ UNCHANGED ids

RecalculateWalls ==
  /\ CanEdit
  /\ Edited(recalculateWalls(plan), [NoCall EXCEPT !.op = "recalculate"])
  /\ UNCHANGED ids

Next ==
  \/ Generate
  \/ ResizeRoom
  \/ MoveRoom
  \/ AddRoom
  \/ RemoveRoom
  \/ RecalculateWalls

\* generateFloorPlan followed by any sequence of edit calls
Spec == Init /\ [][Next]_vars

\* generateFloorPlan alone, over the wider set of inputs
NextGen == Generate

SpecGen == InitGen /\ [][NextGen]_vars

InitParsed == InitWith(ParsedHouseSpecs)

\* distribute on its own, on the zones and house widths generateFloorPlan
\* hands to it
InitDist ==
  /\ input \in DistHouseSpecs
  /\ fcall \in DistCalls(input)
  /\ phase = "spec"
  /\ plan = NoPlan
  /\ prev = NoPlan
  /\ call = NoCall
  /\ ids = 0
  /\ edits = 0
  /\ heap = <<>>
  /\ cur = 0

Distribute ==
  /\ fcall.f = "distribute" /\ ~fcall.done
  /\ fcall' = [fcall EXCEPT !.out = distribute(fcall.rooms, fcall.w), !.done = TRUE]
  /\ UNCHANGED << input, phase, plan, prev, call, ids, edits, heap, cur >>

NextDist == Distribute

SpecDist == InitDist /\ [][NextDist]_vars

\* buildWalls on its own
InitWalls ==
  /\ input \in ParsedHouseSpecs
  /\ fcall \in WallCalls(input)
  /\ phase = "spec"
  /\ plan = NoPlan
  /\ prev = NoPlan
  /\ call = NoCall
  /\ ids = 0
  /\ edits = 0
  /\ heap = <<>>
  /\ cur = 0

BuildWalls ==
  /\ fcall.f = "buildWalls" /\ ~fcall.done
  /\ fcall' = [fcall EXCEPT !.out = buildWalls(fcall.rooms, fcall.w, fcall.h,
                                               fcall.gw, fcall.gd),
                            !.done = TRUE]
  /\ UNCHANGED << input, phase, plan, prev, call, ids, edits, heap, cur >>

NextWalls == BuildWalls

SpecWalls == InitWalls /\ [][NextWalls]_vars

\* The edit calls on FloorPlan values that carry a garage wing: the
\* rooms and footprint generateFloorPlan lays out for a house with a
\* garage, with garageWingWidth and garageWingDepth as lines 218-219
\* compute them and the walls buildWalls derives with that wing.
LShapedPlan(spec) ==
  LET q == generateFloorPlan(spec)
      zones0 == Bucket(Sized(spec))
      gw == << snap(EXT_WALL + naturalW(zones0[0]) + EXT_WALL) >>
      gd == << snap(EXT_WALL + ZoneHeights(zones0)[0] + INT_WALL) >>
  IN [q EXCEPT !.garageWingWidth = gw, !.garageWingDepth = gd,
               !.walls = buildWalls(q.rooms, q.width, q.depth, gw, gd)]

InitShape ==
  /\ input \in ShapeHouseSpecs
  /\ plan = LShapedPlan(input)
  /\ phase = "plan"
  /\ ids = Len(plan.rooms)
  /\ prev = NoPlan
  /\ call = NoCall
  /\ edits = 0
  /\ heap = <<>>
  /\ cur = 0
  /\ fcall = NoFcall

NextShape ==
  \/ ResizeRoom
  \/ MoveRoom
  \/ AddRoom
  \/ RemoveRoom
  \/ RecalculateWalls

SpecShape == InitShape /\ [][NextShape]_vars

\* generateFloorPlan as generateFloorPlanFromText calls it, on the rooms
\* returned by parseRoomSpec
SpecParsed == InitParsed /\ [][NextGen]_vars

\* ------------------------------------------------------------------
\* The same calls on objects with identity.  A FloorPlan is an object that
\* refers to its rooms array, the array refers to Room objects, and a call
\* may hand back objects of its argument.  heap[a] is the object at address
\* a; every object literal, map, filter and array spread allocates.  The
\* Wall objects are made afresh by every buildWalls call and are kept inside
\* their array's cell.
\* ------------------------------------------------------------------
Cell(k, v) == [k |-> k, v |-> v]

\* addresses of the Room objects of the plan object at address a
RoomRefs(h, a) == h[h[a].v.rooms].v

\* the plan value read through the plan object at address a
Deref(h, a) ==
  LET o == h[a].v
      refs == RoomRefs(h, a)
  IN [totalArea |-> o.totalArea, width |-> o.width, depth |-> o.depth,
      garageWingWidth |-> o.garageWingWidth, garageWingDepth |-> o.garageWingDepth,
      rooms |-> [i \in 1..Len(refs) |-> h[refs[i]].v],
      walls |-> h[o.walls].v]

\* the object {...plan, rooms, walls, ...} carrying the scalar fields of q
PlanCell(q, roomsAt, wallsAt) ==
  Cell("plan", [rooms |-> roomsAt, walls |-> wallsAt,
                totalArea |-> q.totalArea, width |-> q.width, depth |-> q.depth,
                garageWingWidth |-> q.garageWingWidth,
                garageWingDepth |-> q.garageWingDepth])

\* h extended by new Room objects, a new rooms array `refs`, a new walls
\* array and the new plan object (the last cell)
Allocated(h, roomCells, refs, q) ==
  LET at == Len(h) + Len(roomCells)
  IN h \o roomCells
       \o << Cell("rooms", refs), Cell("walls", q.walls), PlanCell(q, at + 1, at + 2) >>

\* generateFloorPlan: every room is pushed as a new object
heapGenerate(h, spec) ==
  LET q == generateFloorPlan(spec)
  IN Allocated(h, [i \in 1..Len(q.rooms) |-> Cell("room", q.rooms[i])],
               [i \in 1..Len(q.rooms) |-> Len(h) + i], q)

\* plan.rooms.map(r => r.id !== roomId ? r : {...r, ...}): a new array that
\* holds the same object for every other room and a new one for the room
\* named; q is the plan value returned
heapMapped(h, a, roomId, q) ==
  LET refs == RoomRefs(h, a)
      hits == SelectSeq([i \in 1..Len(refs) |-> i], LAMBDA i : h[refs[i]].v.id = roomId)
      rank(i) == Cardinality({ j \in 1..Len(hits) : hits[j] <= i })
  IN Allocated(h, [j \in 1..Len(hits) |-> Cell("room", q.rooms[hits[j]])],
               [i \in 1..Len(refs) |->
                  IF h[refs[i]].v.id = roomId THEN Len(h) + rank(i) ELSE refs[i]], q)

heapResizeRoom(h, a, roomId, newW, newH) ==
  heapMapped(h, a, roomId, resizeRoom(Deref(h, a), roomId, newW, newH))

heapMoveRoom(h, a, roomId, newX, newY) ==
  heapMapped(h, a, roomId, moveRoom(Deref(h, a), roomId, newX, newY))

\* an addRoom that pushes the new room onto the rooms array of its argument
heapAddRoomPush(h, a, spec, newId) ==
  LET q == addRoom(Deref(h, a), spec, newId)
      g == [h EXCEPT ![h[a].v.rooms].v = Append(@, Len(h) + 1)]
  IN g \o << Cell("room", q.rooms[Len(q.rooms)]),
             Cell("walls", q.walls), PlanCell(q, h[a].v.rooms, Len(h) + 2) >>

\* [...plan.rooms, newRoom]: a new array of the old objects and the new one
heapAddRoom(h, a, spec, newId) ==
  LET q == addRoom(Deref(h, a), spec, newId)
  IN Allocated(h, << Cell("room", q.rooms[Len(q.rooms)]) >>,
               Append(RoomRefs(h, a), Len(h) + 1), q)

\* plan.rooms.filter(r => r.id !== roomId): a new array of the old objects
heapRemoveRoom(h, a, roomId) ==
  Allocated(h, <<>>, SelectSeq(RoomRefs(h, a), LAMBDA r : h[r].v.id # roomId),
            removeRoom(Deref(h, a), roomId))

\* {...plan, walls, totalArea}: the rooms array itself is handed on
heapRecalculateWalls(h, a) ==
  LET q == recalculateWalls(Deref(h, a))
  IN h \o << Cell("walls", q.walls), PlanCell(q, h[a].v.rooms, Len(h) + 1) >>

HeapGenerate ==
  /\ phase = "spec"
  /\ phase' = "plan"
  /\ heap' = heapGenerate(heap, input)
  /\ cur' = Len(heap')
  /\ plan' = Deref(heap', cur')
  /\ ids' = Len(plan'.rooms)
  /\ call' = [NoCall EXCEPT !.op = "generate"]
  /\ UNCHANGED << input, prev, edits, fcall >>

\* the call returned the plan object allocated last
HeapEdited(newHeap, c) ==
  /\ heap' = newHeap
  /\ cur' = Len(newHeap)
  /\ plan' = Deref(heap', cur')
  /\ prev' = plan
  /\ call' = c
  /\ edits' = edits + 1
  /\ UNCHANGED << input, phase, fcall >>

HeapResizeRoom ==
  /\ CanEdit
  /\ \E id \in CallIds, wh \in ResizeArgs :
       HeapEdited(heapResizeRoom(heap, cur, id, wh[1], wh[2]),
                  [NoCall EXCEPT !.op = "resize", !.roomId = id, !.a = wh[1], !.b = wh[2]])
  /\ UNCHANGED ids

HeapMoveRoom ==
  /\ CanEdit
  /\ \E id \in CallIds, xy \in MoveArgs :
       HeapEdited(heapMoveRoom(heap, cur, id, xy[1], xy[2]),
                  [NoCall EXCEPT !.op = "move", !.roomId = id, !.a = xy[1], !.b = xy[2]])
  /\ UNCHANGED ids

HeapAddRoom ==
  /\ CanEdit
  /\ \E rs \in AddArgs :
       HeapEdited(heapAddRoom(heap, cur, rs, ids + 1),
                  [NoCall EXCEPT !.op = "add", !.roomId = ids + 1, !.spec = <<rs>>])
  /\ ids' = ids + 1

HeapRemoveRoom ==
  /\ CanEdit
  /\ \E id \in CallIds :
       HeapEdited(heapRemoveRoom(heap, cur, id),
                  [NoCall EXCEPT !.op = "remove", !.roomId = id])
  /\ UNCHANGED ids

HeapRecalculateWalls ==
  /\ CanEdit
  /\ HeapEdited(heapRecalculateWalls(heap, cur), [NoCall EXCEPT !.op = "recalculate"])
  /\ UNCHANGED ids

NextHeap ==
  \/ HeapGenerate
  \/ HeapResizeRoom
  \/ HeapMoveRoom
  \/ HeapAddRoom
  \/ HeapRemoveRoom
  \/ HeapRecalculateWalls

\* generateFloorPlan followed by edit calls, on objects with identity
SpecHeap == Init /\ [][NextHeap]_vars

\* ------------------------------------------------------------------
\* Vocabulary of the properties
\* ------------------------------------------------------------------
Generated == phase = "plan" /\ call.op = "generate"

RoomIdx(p) == 1..Len(p.rooms)

\* two rectangles intersect by more than the 0.05 m margin on both axes
Overlap(a, b) ==
  /\ 2 * a.x < 2 * (b.x + b.width) - 1
  /\ 2 * (a.x + a.width) > 2 * b.x + 1
  /\ 2 * a.y < 2 * (b.y + b.height) - 1
  /\ 2 * (a.y + a.height) > 2 * b.y + 1

NoOverlap(p) ==
  \A i, j \in RoomIdx(p) : i # j => ~Overlap(p.rooms[i], p.rooms[j])

AtLeastMin(r) ==
  /\ r.width >= ROOM_MIN_SIZES[r.type].width
  /\ r.height >= ROOM_MIN_SIZES[r.type].height

OnGrid(v) == v % GRID = 0

SameWall(u, v) ==
  \/ (u.x1 = v.x1 /\ u.y1 = v.y1 /\ u.x2 = v.x2 /\ u.y2 = v.y2)
  \/ (u.x1 = v.x2 /\ u.y1 = v.y2 /\ u.x2 = v.x1 /\ u.y2 = v.y1)

\* sum of width * height over the rooms whose type is not in `excluded`
RECURSIVE AreaOver(_, _, _)
AreaOver(p, idx, excluded) ==
  IF idx = {} THEN 0
  ELSE LET i == CHOOSE k \in idx : TRUE
           r == p.rooms[i]
       IN (IF r.type \in excluded THEN 0 ELSE r.width * r.height)
          + AreaOver(p, idx \ {i}, excluded)

\* t is s rounded to one decimal (both in 0.01 m^2), halves rounding up
IsRounded1(t, s) == t % 10 = 0 /\ t - 5 <= s /\ s < t + 5

AreaIsHabitableSum(p) ==
  IsRounded1(p.totalArea, AreaOver(p, RoomIdx(p), {"garage", "hallway", "storage"}))

\* ------------------------------------------------------------------
\* C1: in every plan returned by generateFloorPlan no two distinct rooms
\* overlap by more than the 0.05 m margin on both axes.   (SpecGen)
\* ------------------------------------------------------------------
C1_NoOverlapGenerated == Generated => NoOverlap(plan)

\* a generated plan with two rooms side by side in one zone and a room of
\* another zone below them
C1_Witness ==
  /\ Generated
  /\ \E i, j, k \in RoomIdx(plan) :
       /\ i # j
       /\ plan.rooms[i].y = plan.rooms[j].y
       /\ plan.rooms[k].y > plan.rooms[i].y

\* ------------------------------------------------------------------
\* C2 (as claimed): no two rooms overlap in any plan reachable from a
\* generated plan by resizeRoom, moveRoom, addRoom and removeRoom calls.
\* moveRoom and resizeRoom do no collision resolution, so this fails. (Spec)
\* ------------------------------------------------------------------
C2_Original == phase = "plan" => NoOverlap(plan)

\* C2 (amended): no two rooms overlap in a generated plan, and addRoom and
\* removeRoom never introduce an overlap: called on a plan without
\* overlapping rooms they return one without.  Hence no two rooms overlap
\* in any plan reachable from a generated plan by addRoom and removeRoom
\* calls.   (Spec)
C2_NoOverlapAddRemove ==
  /\ [](Generated => NoOverlap(plan))
  /\ [][(call'.op \in {"add", "remove"} /\ NoOverlap(plan)) => NoOverlap(plan')]_vars

\* a room was added below the rooms of a generated plan, then one removed
C2_Witness ==
  /\ call.op = "remove"
  /\ \E i \in RoomIdx(plan) : plan.rooms[i].id = ids /\ ids > Len(plan.rooms)
  /\ Len(plan.rooms) >= 2

\* ------------------------------------------------------------------
\* C3: every room of a generated plan, every room resized by resizeRoom and
\* every room added by addRoom is at least as wide and as high as
\* ROOM_MIN_SIZES of its type.  snap rounds 2.2 down to 2.0 and 1.2 down to
\* 1.0, so the code breaks this.   (Spec)
\* ------------------------------------------------------------------
C3_MinSizes ==
  /\ Generated => \A i \in RoomIdx(plan) : AtLeastMin(plan.rooms[i])
  /\ call.op \in {"resize", "add"} =>
       \A i \in RoomIdx(plan) :
         plan.rooms[i].id = call.roomId => AtLeastMin(plan.rooms[i])

\* ------------------------------------------------------------------
\* C4 (as claimed): in a generated plan every room's x, y, width and height
\* and the plan's width and depth are multiples of the 0.5 m grid cell.
\* Rooms start at the 0.2 m wall offset and the hallway is 1.2 m high, so
\* this fails.   (SpecGen)
\* ------------------------------------------------------------------
C4_Original ==
  Generated =>
    /\ OnGrid(plan.width) /\ OnGrid(plan.depth)
    /\ \A i \in RoomIdx(plan) :
         LET r == plan.rooms[i]
         IN OnGrid(r.x) /\ OnGrid(r.y) /\ OnGrid(r.width) /\ OnGrid(r.height)

\* C4 (amended): in a generated plan the plan's width and depth, every
\* room's width, and every room's height except the auto-generated
\* hallway's (1.2 m) are multiples of 0.5 m.   (SpecGen)
C4_SizesOnGrid ==
  Generated =>
    /\ OnGrid(plan.width) /\ OnGrid(plan.depth)
    /\ \A i \in RoomIdx(plan) :
         LET r == plan.rooms[i]
         IN /\ OnGrid(r.width)
            /\ IF r.type = "hallway" THEN r.height = HALLWAY_H ELSE OnGrid(r.height)

\* a generated plan holding the hallway and a room whose registered minimum
\* (1.8 x 2.2) is off the grid
C4_Witness ==
  /\ Generated
  /\ \E i, j \in RoomIdx(plan) :
       plan.rooms[i].type = "hallway" /\ plan.rooms[j].type = "ensuite"

\* ------------------------------------------------------------------
\* C5: every room of a generated plan lies inside the footprint with the
\* exterior wall thickness on all sides.  planH is snapped and the snap can
\* round down, so the code breaks this.   (SpecGen)
\* ------------------------------------------------------------------
C5_InsideFootprint ==
  Generated =>
    \A i \in RoomIdx(plan) :
      LET r == plan.rooms[i]
      IN /\ r.x >= EXT_WALL
         /\ r.y >= EXT_WALL
         /\ r.x + r.width <= plan.width - EXT_WALL
         /\ r.y + r.height <= plan.depth - EXT_WALL

\* ------------------------------------------------------------------
\* C6: the wall list of every plan returned by generateFloorPlan or by an
\* edit call holds no two walls with the same endpoint pair, a segment and
\* its reverse counting as the same wall.   (Spec)
\* ------------------------------------------------------------------
C6_NoDuplicateWalls ==
  phase = "plan" =>
    \A i, j \in 1..Len(plan.walls) :
      i # j => ~SameWall(plan.walls[i], plan.walls[j])

\* two distinct rooms of the plan have an edge in common that is not on the
\* exterior boundary
C6_Witness ==
  /\ phase = "plan"
  /\ \E i, j \in RoomIdx(plan) : \E k, l \in 1..4 :
       /\ i # j
       /\ RoomEdges(plan.rooms[i])[k] = RoomEdges(plan.rooms[j])[l]
       /\ ~onExt(RoomEdges(plan.rooms[i])[k], plan.width, plan.depth)

\* ------------------------------------------------------------------
\* C7: totalArea of a generated plan is the sum of width * height over the
\* rooms that are not garage, hallway or storage, rounded to one decimal.
\* (SpecGen)
\* ------------------------------------------------------------------
C7_GeneratedArea == Generated => AreaIsHabitableSum(plan)

\* a generated plan with a garage, a filler storage room, the hallway and a
\* counted room
C7_Witness ==
  /\ Generated
  /\ plan.totalArea > 0
  /\ \E i, j, k \in RoomIdx(plan) :
       /\ plan.rooms[i].type = "garage"
       /\ plan.rooms[j].type = "storage"
       /\ plan.rooms[k].type = "hallway"

\* ------------------------------------------------------------------
\* C8: after resizeRoom, addRoom, removeRoom and recalculateWalls calls the
\* plan's totalArea is the sum of the areas of its current rooms that are
\* not garage, hallway or storage, rounded to one decimal.  resizeRoom,
\* addRoom and removeRoom keep the old totalArea and recalculateWalls counts
\* storage rooms, so the code breaks this.   (Spec)
\* ------------------------------------------------------------------
C8_EditedArea ==
  (phase = "plan" /\ call.op \in {"resize", "add", "remove", "recalculate"})
    => AreaIsHabitableSum(plan)

\* ------------------------------------------------------------------
\* C9: for an input with a garage the generated plan is L-shaped exactly
\* when the garage zone's natural width g, before auto-fill and
\* distribution, is below 0.72 of the house interior width h, and
\* garageWingWidth and garageWingDepth are present exactly when it is
\* L-shaped.  The code tests the width after auto-fill and distribution,
\* so the code breaks this.   (SpecGen)
\* ------------------------------------------------------------------
HasWing(p) == Len(p.garageWingWidth) = 1 /\ Len(p.garageWingDepth) = 1

HasLExterior(p) ==
  Len(SelectSeq(p.walls, LAMBDA w : w.type = "exterior")) = 6

C9_LShapeThreshold ==
  Generated =>
    LET zones0 == Bucket(Sized(input))
        g == naturalW(zones0[0])
        h == HouseW(input, zones0)
    IN /\ Len(plan.garageWingWidth) = Len(plan.garageWingDepth)
       /\ HasWing(plan) <=> HasLExterior(plan)
       /\ Len(zones0[0]) > 0 => (HasWing(plan) <=> 100 * g < 72 * h)

\* ------------------------------------------------------------------
\* C10: after moveRoom on an existing room, for any requested x and y, the
\* moved room's x and y are at least the exterior wall thickness 0.2.  The
\* clamped value is snapped and snap(0.2) = 0, so the code breaks this.
\* (Spec)
\* ------------------------------------------------------------------
C10_MoveInsideWall ==
  call.op = "move" =>
    \A i \in RoomIdx(plan) :
      plan.rooms[i].id = call.roomId =>
        plan.rooms[i].x >= EXT_WALL /\ plan.rooms[i].y >= EXT_WALL

\* ------------------------------------------------------------------
\* C11: resizeRoom on an existing room sets that room's width to the grid
\* multiple nearest to max(w, min.width) and its height to the one nearest
\* to max(h, min.height) (a bedroom resized to 1.0 x 1.0 becomes 3.0 x 3.0),
\* keeps its id, type, label, x and y, and leaves every other room, and the
\* order of the rooms, unchanged.   (Spec)
\* ------------------------------------------------------------------
HasRoom(p, id) == \E i \in RoomIdx(p) : p.rooms[i].id = id

\* t is v snapped to the grid: the multiple of 0.5 m nearest to v, halves up
IsSnapOf(t, v) == OnGrid(t) /\ 2 * t - GRID <= 2 * v /\ 2 * v < 2 * t + GRID

C11_ResizeClampsAndFrames ==
  (call.op = "resize" /\ HasRoom(prev, call.roomId)) =>
    /\ Len(plan.rooms) = Len(prev.rooms)
    /\ \A i \in RoomIdx(prev) :
         LET old == prev.rooms[i]
             new == plan.rooms[i]
             min == ROOM_MIN_SIZES[old.type]
         IN IF old.id # call.roomId THEN new = old
            ELSE /\ IsSnapOf(new.width, Max(call.a, min.width))
                 /\ IsSnapOf(new.height, Max(call.b, min.height))
                 /\ (old.type = "bedroom" /\ call.a = 10 /\ call.b = 10)
                      => (new.width = 30 /\ new.height = 30)
                 /\ [new EXCEPT !.width = old.width, !.height = old.height] = old

\* a bedroom standing beside other rooms was resized to 1.0 x 1.0
C11_Witness ==
  /\ call.op = "resize" /\ call.a = 10 /\ call.b = 10
  /\ Len(prev.rooms) >= 2
  /\ \E i \in RoomIdx(prev) :
       /\ prev.rooms[i].id = call.roomId
       /\ prev.rooms[i].type = "bedroom"
       /\ prev.rooms[i].width > 30
       /\ plan.rooms[i].width = 30

\* ------------------------------------------------------------------
\* C12: resizeRoom or moveRoom called on a generated plan with a roomId that
\* matches no room is a no-op: the returned plan has the same rooms, width,
\* depth, totalArea and garage-wing fields, and the same set of wall
\* segments (endpoints, thickness and type), as the plan it was given.
\* (Spec)
\* ------------------------------------------------------------------
WallSet(p) == { p.walls[i] : i \in 1..Len(p.walls) }

C12_UnknownIdNoOp ==
  (call.op \in {"resize", "move"} /\ edits = 1 /\ ~HasRoom(prev, call.roomId)) =>
    /\ plan.rooms = prev.rooms
    /\ plan.width = prev.width /\ plan.depth = prev.depth
    /\ plan.totalArea = prev.totalArea
    /\ plan.garageWingWidth = prev.garageWingWidth
    /\ plan.garageWingDepth = prev.garageWingDepth
    /\ WallSet(plan) = WallSet(prev)

\* moveRoom was called with an id that is no room's on a generated plan that
\* has rooms and interior walls
C12_Witness ==
  /\ call.op = "move" /\ edits = 1 /\ ~HasRoom(prev, call.roomId)
  /\ Len(prev.rooms) >= 2
  /\ call.a # prev.rooms[1].x
  /\ \E w \in WallSet(prev) : w.type = "interior"

\* ------------------------------------------------------------------
\* C13: generateFloorPlan on an empty room list returns a plan with no
\* room and totalArea 0 whose walls are the exterior boundary segments
\* only: the four sides of the footprint, no interior wall, no hallway.
\* (SpecGen)
\* ------------------------------------------------------------------
\* the walls of p are exactly the four sides of its width x depth footprint
OnlyBoundaryWalls(p) ==
  /\ Len(p.walls) = 4
  /\ \A i \in 1..Len(p.walls) :
       /\ p.walls[i].type = "exterior"
       /\ p.walls[i].thickness = EXT_WALL
  /\ \A c \in { Seg(0, 0, p.width, 0), Seg(p.width, 0, p.width, p.depth),
                 Seg(p.width, p.depth, 0, p.depth), Seg(0, p.depth, 0, 0) } :
       \E i \in 1..Len(p.walls) : SameWall(p.walls[i], c)

C13_EmptyInput ==
  (Generated /\ Len(input.rooms) = 0) =>
    /\ Len(plan.rooms) = 0
    /\ plan.totalArea = 0
    /\ OnlyBoundaryWalls(plan)

\* a plan generated from the empty room list, with a footprint
C13_Witness ==
  /\ Generated /\ Len(input.rooms) = 0
  /\ plan.width > 0 /\ plan.depth > 0 /\ Len(plan.walls) > 0

\* ------------------------------------------------------------------
\* C14 (as claimed): generateFloorPlan on a single bedroom spec with no
\* width and no height returns a plan whose bedroom is 3.0 x 3.0, whose
\* width is 3.4 and depth 3.4, and whose totalArea is 9.0.  The house is
\* never narrower than 8.0 m, a bedroom brings the hallway with it, and the
\* rear zone is filled and widened, so this fails.   (SpecGen)
\* ------------------------------------------------------------------
OneBedroom ==
  /\ Generated
  /\ Len(input.targetWidth) = 0
  /\ Len(input.rooms) = 1
  /\ input.rooms[1].type = "bedroom"
  /\ Len(input.rooms[1].width) = 0 /\ Len(input.rooms[1].height) = 0

RoomsOfType(p, t) == { i \in RoomIdx(p) : p.rooms[i].type = t }

Without(s, k) == SubSeq(s, 1, k - 1) \o SubSeq(s, k + 1, Len(s))

C15_RemoveFrames ==
  call.op = "remove" =>
    /\ \A k \in RoomIdx(prev) :
         prev.rooms[k].id = call.roomId => plan.rooms = Without(prev.rooms, k)
    /\ ~HasRoom(prev, call.roomId) => plan.rooms = prev.rooms
    /\ (Len(prev.rooms) = 1 /\ HasRoom(prev, call.roomId)) =>
         (Len(plan.rooms) = 0 /\ OnlyBoundaryWalls(plan))

\* a room that is neither the first nor the last of the list was removed
C15_Witness ==
  /\ call.op = "remove"
  /\ \E k \in RoomIdx(prev) :
       /\ 1 < k /\ k < Len(prev.rooms)
       /\ prev.rooms[k].id = call.roomId
  /\ Len(plan.rooms) = Len(prev.rooms) - 1

\* ------------------------------------------------------------------
\* C16: every edit call (resizeRoom, moveRoom, addRoom, removeRoom,
\* recalculateWalls) leaves the plan it was given as it was: read after the
\* call, the rooms (each room's fields), walls, width, depth and totalArea
\* of the input plan object, and of every plan object returned earlier, are
\* what they were before the call.   (SpecHeap)
\* ------------------------------------------------------------------
PlanAddrs(h) == { a \in 1..Len(h) : h[a].k = "plan" }

C16_InputPlanUnchanged ==
  [][ \A a \in PlanAddrs(heap) :
        /\ a \in PlanAddrs(heap')
        /\ Deref(heap', a) = Deref(heap, a) ]_vars

\* after two edit calls the current plan differs from the plan the first
\* call was given and still holds one of that plan's Room objects
C16_Witness ==
  /\ edits = 2
  /\ \E a \in PlanAddrs(heap) :
       /\ a < cur
       /\ Deref(heap, a) # plan
       /\ \E i \in 1..Len(RoomRefs(heap, a)), j \in 1..Len(RoomRefs(heap, cur)) :
            RoomRefs(heap, a)[i] = RoomRefs(heap, cur)[j]

\* ------------------------------------------------------------------
\* C17: recalculateWalls is idempotent on the wall segments and the area:
\* for any plan P, recalculateWalls(recalculateWalls(P)) has the same set
\* of wall segments (endpoints, type, thickness) and the same totalArea as
\* recalculateWalls(P); and for two rooms standing edge to edge with the
\* 0.1 m gap, the boundary between them gives one or two interior segments
\* (the facing edge of each room), none of them twice.   (Spec)
\* ------------------------------------------------------------------
\* number of walls of p on the segment e, in either direction
WallsOn(p, e) == Cardinality({ k \in 1..Len(p.walls) : SameWall(p.walls[k], e) })

\* room b stands to the right of room a across one interior wall gap
EdgeToEdge(a, b) ==
  b.x = a.x + a.width + INT_WALL /\ b.y = a.y /\ b.height = a.height

C17_RecalculateIdempotent ==
  phase = "plan" =>
    LET q == recalculateWalls(plan)
        qq == recalculateWalls(q)
    IN /\ WallSet(qq) = WallSet(q)
       /\ qq.totalArea = q.totalArea
       /\ \A i, j \in RoomIdx(plan) :
            EdgeToEdge(plan.rooms[i], plan.rooms[j]) =>
              LET right == WallsOn(q, RoomEdges(plan.rooms[i])[2])
                  left == WallsOn(q, RoomEdges(plan.rooms[j])[4])
              IN /\ right <= 1 /\ left <= 1
                 /\ right + left \in {1, 2}
                 /\ WallsOn(qq, RoomEdges(plan.rooms[i])[2]) = right
                 /\ WallsOn(qq, RoomEdges(plan.rooms[j])[4]) = left

\* recalculateWalls was called twice in a row on a plan with two rooms edge
\* to edge, and the first call changed totalArea
C17_Witness ==
  /\ call.op = "recalculate" /\ edits = 2
  /\ plan.totalArea = prev.totalArea
  /\ WallSet(plan) = WallSet(prev)
  /\ \E i, j \in RoomIdx(plan) : EdgeToEdge(plan.rooms[i], plan.rooms[j])
  /\ \E w \in WallSet(plan) : w.type = "interior"
  /\ plan.totalArea # generateFloorPlan(input).totalArea

\* ------------------------------------------------------------------
\* C18: a room spec whose type is no RoomType does not make
\* generateFloorPlan fail: the room is laid out like the default bedroom,
\* at least 3.0 x 3.0 and in the rear zone, and the room of the plan
\* carries a type of the closed enumeration.  parseRoomSpec and
\* generateFloorPlan pass the type string on as it is, so the code breaks
\* the last part.   (SpecParsed)
\* ------------------------------------------------------------------
UnknownInputs == { i \in 1..Len(input.rooms) : input.rooms[i].type \notin RoomTypes }

\* rooms of the lowest band of the plan, the Linen filler aside, that are
\* at least 3.0 x 3.0
RearRooms(p) ==
  { i \in RoomIdx(p) :
      /\ \A j \in RoomIdx(p) : p.rooms[j].y <= p.rooms[i].y
      /\ p.rooms[i].label # "Linen"
      /\ p.rooms[i].width >= 30 /\ p.rooms[i].height >= 30 }

\* the hallway is there and at least as many 3.0 x 3.0 rooms stand in the
\* rear band as the input has rooms of unknown type
UnknownLaidOutRear ==
  /\ RoomsOfType(plan, "hallway") # {}
  /\ Cardinality(RearRooms(plan)) >= Cardinality(UnknownInputs)

C18_UnknownTypeFallsBack ==
  (Generated /\ UnknownInputs # {}) =>
    /\ UnknownLaidOutRear
    /\ \A i \in RoomIdx(plan) : plan.rooms[i].type \in RoomTypes

\* ------------------------------------------------------------------
\* C19: with no targetWidth the house interior width is the grid-snapped
\* maximum of the living zone's natural width, the natural width of the
\* widest other non-empty zone (garage, private, rear) and 8.0 m, so it is
\* never below a zone's natural width by more than the snapping, and the
\* plan's width is that plus the two exterior walls, snapped.  The code
\* takes the other zones into account only when the living zone is empty,
\* so the code breaks this.   (SpecParsed)
\* ------------------------------------------------------------------
C19_HouseWidth ==
  (Generated /\ Len(input.targetWidth) = 0) =>
    LET zones0 == Bucket(Sized(input))
        nat(z) == naturalW(zones0[z])
        widest == Max(nat(1), Max(Max(nat(0), Max(nat(3), nat(4))), MIN_HOUSE_W))
        houseW == HouseW(input, zones0)
    IN /\ houseW = snap(widest)
       /\ \A z \in {0, 1, 3, 4} : 2 * houseW + GRID >= 2 * nat(z)
       /\ plan.width = snap(EXT_WALL + snap(widest) + EXT_WALL)

\* ------------------------------------------------------------------
\* C20: a generated plan holds exactly one hallway room when at least one
\* input room maps to the private zone (3) or the rear zone (4) and none
\* otherwise, whatever hallway or corridor specs the input contains (they
\* are never placed); the hallway is 1.2 high, stands at x = 0.2 and is as
\* wide as the house interior.   (SpecGen)
\* ------------------------------------------------------------------
C20_OneHallway ==
  Generated =>
    LET wanted == \E i \in 1..Len(input.rooms) : zone(input.rooms[i].type) \in {3, 4}
        halls == RoomsOfType(plan, "hallway")
        kept == { i \in 1..Len(input.rooms) : zone(input.rooms[i].type) # 2 }
    IN /\ Cardinality(halls) = (IF wanted THEN 1 ELSE 0)
       /\ RoomsOfType(plan, "corridor") = {}
       /\ Cardinality(RoomIdx(plan) \ halls) >= Cardinality(kept)
       /\ \A i \in halls :
            /\ plan.rooms[i].height = HALLWAY_H
            /\ plan.rooms[i].x = EXT_WALL
            /\ plan.rooms[i].width = HouseW(input, Bucket(Sized(input)))
            /\ plan.width = snap(EXT_WALL + plan.rooms[i].width + EXT_WALL)

\* a plan generated from a private-zone room and a hallway spec with hints:
\* it holds the one generated hallway, 1.2 high
C20_Witness ==
  /\ Generated
  /\ Len(input.rooms) = 2
  /\ input.rooms[1].type = "master_bedroom"
  /\ input.rooms[2].type = "hallway" /\ input.rooms[2].width = <<58>>
  /\ Cardinality(RoomsOfType(plan, "hallway")) = 1

\* ------------------------------------------------------------------
\* C21: in a generated plan the zones are stacked in index order without
\* zig-zag: all rooms of one zone share the same y and the same height (the
\* tallest resolved height in that zone), rooms placed from an input spec
\* sit in the band of their type's zone, the first non-empty zone starts at
\* y = 0.2, and each following non-empty zone starts exactly at the
\* previous zone's y + height + 0.1.   (SpecGen)
\* ------------------------------------------------------------------
\* zone of a room of a generated plan: the garage-zone fillers stand in
\* zone 0, every other room in the zone of its type
BandOf(r) == IF r.label \in {"Entry / Porch", "Alfresco"} THEN 0 ELSE zone(r.type)

\* tallest resolved height among the input rooms of zone zi (0 if none)
TallestIn(spec, zi) ==
  LET z == Bucket(Sized(spec))[zi]
  IN IF Len(z) = 0 THEN 0 ELSE MaxSeq([i \in 1..Len(z) |-> z[i].h])

C21_ZonesStacked ==
  Generated =>
    LET bands == { BandOf(plan.rooms[i]) : i \in RoomIdx(plan) }
    IN /\ \A i, j \in RoomIdx(plan) :
            LET a == plan.rooms[i]
                b == plan.rooms[j]
            IN /\ BandOf(a) = BandOf(b) => (a.y = b.y /\ a.height = b.height)
               /\ BandOf(a) < BandOf(b) => a.y < b.y
       /\ \A i \in RoomIdx(plan) :
            LET a == plan.rooms[i]
                above == { j \in RoomIdx(plan) : BandOf(plan.rooms[j]) < BandOf(a) }
            IN /\ BandOf(a) # 2 => a.height = TallestIn(input, BandOf(a))
               /\ above = {} => a.y = EXT_WALL
               /\ \A j \in above :
                    (\A k \in above : BandOf(plan.rooms[k]) <= BandOf(plan.rooms[j]))
                      => a.y = plan.rooms[j].y + plan.rooms[j].height + INT_WALL
       /\ \A zi \in {0, 1, 3, 4} :
            Cardinality({ i \in RoomIdx(plan) :
                            BandOf(plan.rooms[i]) = zi /\ plan.rooms[i].label = "Room" })
              = Len(Bucket(Sized(input))[zi])

\* a plan generated from a kitchen and a rear-zone room: three bands
\* (living, hallway, rear), the rear one holding the room and the Linen filler
C21_Witness ==
  /\ Generated
  /\ Len(input.rooms) = 2
  /\ input.rooms[1].type = "kitchen"
  /\ TallestIn(input, 4) > 0
  /\ \E i, j \in RoomIdx(plan) :
       /\ i # j /\ BandOf(plan.rooms[i]) = 4 /\ BandOf(plan.rooms[j]) = 4
  /\ Cardinality({ plan.rooms[i].y : i \in RoomIdx(plan) }) = 3

\* ------------------------------------------------------------------
\* Vocabulary of the distribute properties
\* ------------------------------------------------------------------
\* distribute has returned
Distributes == fcall.f = "distribute" /\ fcall.done

\* the zone's target exceeds its natural width by more than 0.05 m
TargetExceeds == 2 * (fcall.w - naturalW(fcall.rooms)) > 1

\* ------------------------------------------------------------------
\* C22: after width distribution of a zone whose target exceeds its natural
\* width by more than 0.05 m, every room of the zone other than its last
\* has width <= height x maxAspect[type], the snapped result included.
\* The capped width is snapped afterwards and the snap can round it up past
\* the cap, so the code breaks this.   (SpecDist)
\* ------------------------------------------------------------------
C22_AspectCap ==
  (Distributes /\ TargetExceeds) =>
    \A i \in 1..(Len(fcall.out) - 1) :
      2 * fcall.out[i].w <= fcall.out[i].h * MaxAspect2(fcall.out[i].type)

\* ------------------------------------------------------------------
\* C23: after width distribution of a non-empty zone whose target exceeds
\* its natural width by more than 0.05 m, the zone's new natural width (sum
\* of room widths plus 0.1 per gap) differs from the target by less than
\* one grid cell (0.5 m), for any number of rooms.  Every room is snapped
\* on its own and the remainder is added to a width that was snapped
\* already, so the code breaks this.   (SpecDist)
\* ------------------------------------------------------------------
C23_FillsTarget ==
  (Distributes /\ TargetExceeds /\ Len(fcall.rooms) > 0) =>
    Abs(naturalW(fcall.out) - fcall.w) < GRID

\* ------------------------------------------------------------------
\* C24: width distribution only grows rooms: each room's width after
\* distribute is >= its width before, and when the target exceeds the
\* natural width by at most 0.05 m (or is smaller) every room is returned
\* unchanged.  A room wider than its aspect cap gets a negative share, so
\* the code breaks the first part.   (SpecDist)
\* ------------------------------------------------------------------
C24_OnlyGrows ==
  Distributes =>
    /\ Len(fcall.out) = Len(fcall.rooms)
    /\ \A i \in 1..Len(fcall.rooms) : fcall.out[i].w >= fcall.rooms[i].w
    /\ ~TargetExceeds => fcall.out = fcall.rooms

\* ------------------------------------------------------------------
\* Vocabulary of the auto-fill properties
\* ------------------------------------------------------------------
\* rooms of plan p with the given label
RoomsLabelled(p, l) == { i \in RoomIdx(p) : p.rooms[i].label = l }

\* what the house width leaves unused beside the input rooms of zone zi
UnusedBeside(spec, zi) ==
  LET zones0 == Bucket(Sized(spec))
  IN HouseW(spec, zones0) - naturalW(zones0[zi])

HasInputIn(spec, zi) == Len(Bucket(Sized(spec))[zi]) > 0

\* width of the entry room when it is appended: up to 3.0 m of what is unused
EntryAppended(spec) == snap(Min(UnusedBeside(spec, 0) - INT_WALL, 30))

\* width of the Linen room when it is appended: up to 2.0 m of what is unused
LinenAppended(spec) == snap(Min(UnusedBeside(spec, 4) - INT_WALL, 20))

\* the entry room belongs into the plan / the alfresco room does
EntryDue(spec) == HasInputIn(spec, 0) /\ UnusedBeside(spec, 0) > 14

AlfrescoDue(spec) ==
  EntryDue(spec) /\ UnusedBeside(spec, 0) - INT_WALL - EntryAppended(spec) > 14

LinenDue(spec) == HasInputIn(spec, 4) /\ UnusedBeside(spec, 4) > 20

\* ------------------------------------------------------------------
\* C25: a storage room labelled 'Entry / Porch' is in the
\* generated plan if and only if the input has a garage and the house
\* interior width exceeds the garage rooms' natural width by more than
\* 1.4 m, and that room is at most 3.0 m wide in the produced plan; a second
\* storage room labelled 'Alfresco' is present if and only if more than
\* 1.4 m is still unused after the entry room was appended.  The entry room
\* is appended at most 3.0 m wide and widened by the width distribution
\* afterwards, so the code breaks the width bound.   (SpecGen)
\* ------------------------------------------------------------------
C25_GarageFill ==
  Generated =>
    /\ Cardinality(RoomsLabelled(plan, "Entry / Porch")) = (IF EntryDue(input) THEN 1 ELSE 0)
    /\ Cardinality(RoomsLabelled(plan, "Alfresco")) = (IF AlfrescoDue(input) THEN 1 ELSE 0)
    /\ \A i \in RoomsLabelled(plan, "Entry / Porch") \cup RoomsLabelled(plan, "Alfresco") :
         plan.rooms[i].type = "storage"
    /\ \A i \in RoomsLabelled(plan, "Entry / Porch") : plan.rooms[i].width <= 30

\* ------------------------------------------------------------------
\* C26: a storage room labelled 'Linen' is in the generated plan if and
\* only if zone 4 has at least one input room and the house interior width
\* exceeds that zone's natural width by more than 2.0 m; at most one Linen
\* room is added and it is at most 2.0 m wide in the produced plan.  The
\* Linen room is appended at most 2.0 m wide and widened by the width
\* distribution afterwards, so the code breaks the width bound.   (SpecGen)
\* ------------------------------------------------------------------
C26_RearFill ==
  Generated =>
    /\ Cardinality(RoomsLabelled(plan, "Linen")) = (IF LinenDue(input) THEN 1 ELSE 0)
    /\ \A i \in RoomsLabelled(plan, "Linen") :
         plan.rooms[i].type = "storage" /\ plan.rooms[i].width <= 20

\* ------------------------------------------------------------------
\* C27: addRoom appends exactly one room at x = 0.2 and y = (largest
\* y + height over the existing rooms) + 0.1, leaves all existing rooms
\* unchanged and never overlaps them; the returned plan's width and depth
\* are never smaller than the input plan's, and the new room fits inside
\* them with the exterior wall on each side (x + width + 0.2 <= width,
\* y + height + 0.2 <= depth), for any plan reachable by previous edits.
\* The depth is recomputed from the new room alone and snapped to the
\* nearest grid cell, so the code breaks the depth parts.   (Spec)
\* ------------------------------------------------------------------
C27_AddRoomFits ==
  call.op = "add" =>
    /\ Len(plan.rooms) = Len(prev.rooms) + 1
    /\ SubSeq(plan.rooms, 1, Len(prev.rooms)) = prev.rooms
    /\ LET new == plan.rooms[Len(plan.rooms)]
       IN /\ new.id = call.roomId
          /\ new.x = EXT_WALL
          /\ \A i \in RoomIdx(prev) :
               /\ new.y >= prev.rooms[i].y + prev.rooms[i].height + INT_WALL
               /\ ~Overlap(new, prev.rooms[i])
          /\ \/ \E i \in RoomIdx(prev) :
                  new.y = prev.rooms[i].y + prev.rooms[i].height + INT_WALL
             \/ (Len(prev.rooms) = 0 /\ new.y = INT_WALL)
          /\ plan.width >= prev.width
          /\ plan.depth >= prev.depth
          /\ new.x + new.width + EXT_WALL <= plan.width
          /\ new.y + new.height + EXT_WALL <= plan.depth

\* ------------------------------------------------------------------
\* C28: the wall list starts with the exterior perimeter: exactly four
\* exterior segments when no garage wing is given and exactly six when
\* garageWingWidth and garageWingDepth are given, each with thickness 0.2
\* and type exterior, forming a closed loop (each segment starts where the
\* previous one ends and the last returns to (0,0)); every other wall has
\* type interior and thickness 0.1.   (SpecWalls)
\* ------------------------------------------------------------------
BuiltWalls == fcall.f = "buildWalls" /\ fcall.done

WingGiven == Len(fcall.gw) = 1 /\ Len(fcall.gd) = 1

\* the first n walls of ws are exterior walls that form a closed loop from
\* (0,0), and every wall after them is an interior wall
PerimeterFirst(ws, n) ==
  /\ Len(ws) >= n
  /\ ws[1].x1 = 0 /\ ws[1].y1 = 0
  /\ ws[n].x2 = 0 /\ ws[n].y2 = 0
  /\ \A i \in 1..n :
       ws[i].type = "exterior" /\ ws[i].thickness = EXT_WALL
  /\ \A i \in 1..(n - 1) : ws[i + 1].x1 = ws[i].x2 /\ ws[i + 1].y1 = ws[i].y2
  /\ \A i \in (n + 1)..Len(ws) :
       ws[i].type = "interior" /\ ws[i].thickness = INT_WALL

C28_ExteriorPerimeter ==
  BuiltWalls => PerimeterFirst(fcall.out, IF WingGiven THEN 6 ELSE 4)

\* buildWalls was given a garage wing narrower than the plan and rooms
\* that have interior walls
C28_Witness ==
  /\ BuiltWalls /\ WingGiven
  /\ fcall.gw[1] < fcall.w /\ fcall.gd[1] < fcall.h
  /\ Len(fcall.out) > 6

\* ------------------------------------------------------------------
\* C29  Interior wall derivation is complete and exact: in every plan,
\* every room edge that does not lie on one of the lines x = 0, y = 0,
\* x = plan.width, y = plan.depth (both endpoints within 0.05 m of the
\* line) is represented by exactly one interior wall with the same
\* endpoints, possibly reversed, and no interior wall lies on one of
\* those four lines.   (Spec)
\* ------------------------------------------------------------------
\* both endpoints of e within 0.05 m of the vertical line x = c
OnVertical(e, c) == 2 * Abs(e.x1 - c) < 1 /\ 2 * Abs(e.x2 - c) < 1

\* both endpoints of e within 0.05 m of the horizontal line y = c
OnHorizontal(e, c) == 2 * Abs(e.y1 - c) < 1 /\ 2 * Abs(e.y2 - c) < 1

OnBoundaryLine(p, e) ==
  \/ OnVertical(e, 0) \/ OnVertical(e, p.width)
  \/ OnHorizontal(e, 0) \/ OnHorizontal(e, p.depth)

InteriorWallsOn(p, e) ==
  Cardinality({ k \in 1..Len(p.walls) :
                  p.walls[k].type = "interior" /\ SameWall(p.walls[k], e) })

C29_InteriorWallsExact ==
  phase = "plan" =>
    /\ \A i \in 1..Len(plan.rooms) : \A k \in 1..4 :
         LET e == RoomEdges(plan.rooms[i])[k]
         IN ~OnBoundaryLine(plan, e) => InteriorWallsOn(plan, e) = 1
    /\ \A k \in 1..Len(plan.walls) :
         plan.walls[k].type = "interior" => ~OnBoundaryLine(plan, plan.walls[k])

\* an edited plan with a room edge on the boundary line, an edge shared
\* by two rooms and interior walls
C29_Witness ==
  /\ phase = "plan" /\ edits > 0
  /\ \E i \in 1..Len(plan.rooms) : \E k \in 1..4 :
       OnBoundaryLine(plan, RoomEdges(plan.rooms[i])[k])
  /\ \E i, j \in 1..Len(plan.rooms) : \E k, l \in 1..4 :
       /\ i # j
       /\ RoomEdges(plan.rooms[i])[k] = RoomEdges(plan.rooms[j])[l]
       /\ InteriorWallsOn(plan, RoomEdges(plan.rooms[i])[k]) = 1

\* ------------------------------------------------------------------
\* C30  The exterior walls stay consistent with the plan's shape fields
\* across edits: in every plan returned by resizeRoom, moveRoom, addRoom,
\* removeRoom or recalculateWalls, the wall list contains the six-segment
\* L-shaped exterior exactly when the returned plan carries
\* garageWingWidth and garageWingDepth, and the four-segment rectangle
\* otherwise.  The edit calls spread the plan, which keeps the wing
\* fields, and call buildWalls without them.   (SpecShape)
\* ------------------------------------------------------------------
ExteriorCount(p) ==
  Cardinality({ k \in 1..Len(p.walls) : p.walls[k].type = "exterior" })

====
